---- MODULE Spec2Model ----
(***************************************************************************)
(* Model of app.py: the Streamlit repository manager.  One action of the   *)
(* model is one execution of the script, triggered by one UI event (a      *)
(* widget change or a button click).  Session state (local_repos,          *)
(* remote_repos) survives between runs; everything else is recomputed.     *)
(*                                                                         *)
(* Python strings are modelled as tuples of one-character strings so that  *)
(* str.replace, concatenation and sorted() are computed, not assumed.      *)
(***************************************************************************)
EXTENDS Integers, Sequences, FiniteSets, TLC

VARIABLES local_repos, remote_repos, github_username, github_token,
          action, view, last

vars == <<local_repos, remote_repos, github_username, github_token,
          action, view, last>>

----------------------------------------------------------------------------
(* Bounds and the universe of repository names.                            *)

\* Longest repository list a scan response carries.
MaxScan == 2

\* The display suffix of app.py:141 / :150, " (remote)".
Suffix == <<" ", "(", "r", "e", "m", "o", "t", "e", ")">>

\* Repository names the environment can produce: two plain names and one
\* that itself ends in the display suffix.
RepoNames == { <<"a">>, <<"b">>, <<"a">> \o Suffix }

Usernames == { <<>>, <<"u">> }
Tokens == { <<>>, <<"t">> }

Range(s) == { s[i] : i \in 1..Len(s) }

\* Lists without repetition, of length at most n, over the set S.
DistinctSeqs(S, n) ==
    { s \in UNION { [1..k -> S] : k \in 0..n } :
        \A i, j \in 1..Len(s) : i # j => s[i] # s[j] }

----------------------------------------------------------------------------
(* Python built-ins used by the script.                                    *)

\* str.replace(old, new): left to right, non-overlapping occurrences.
RECURSIVE StrReplace(_, _, _)
StrReplace(s, old, new) ==
    IF Len(s) < Len(old) THEN s
    ELSE IF SubSeq(s, 1, Len(old)) = old
         THEN new \o StrReplace(SubSeq(s, Len(old) + 1, Len(s)), old, new)
         ELSE <<Head(s)>> \o StrReplace(Tail(s), old, new)

\* ord() of the characters that occur in names.
CharCode(c) ==
    CASE c = " " -> 32 [] c = "(" -> 40 [] c = ")" -> 41
      [] c = "a" -> 97 [] c = "b" -> 98 [] c = "e" -> 101
      [] c = "m" -> 109 [] c = "o" -> 111 [] c = "r" -> 114
      [] c = "t" -> 116 [] c = "u" -> 117 [] OTHER -> 0

\* s < t for Python strings (lexicographic by code point).
RECURSIVE StrLess(_, _)
StrLess(s, t) ==
    IF t = <<>> THEN FALSE
    ELSE IF s = <<>> THEN TRUE
    ELSE IF CharCode(Head(s)) # CharCode(Head(t))
         THEN CharCode(Head(s)) < CharCode(Head(t))
         ELSE StrLess(Tail(s), Tail(t))

\* sorted(list(set(xs))) for a set of strings.
RECURSIVE SortedOfSet(_)
SortedOfSet(S) ==
    IF S = {} THEN <<>>
    ELSE LET m == CHOOSE x \in S : \A y \in S \ {x} : StrLess(x, y)
         IN  <<m>> \o SortedOfSet(S \ {m})

\* list.remove(x): drops the first occurrence only.
RECURSIVE ListRemove(_, _)
ListRemove(xs, x) ==
    IF xs = <<>> THEN <<>>
    ELSE IF Head(xs) = x THEN Tail(xs)
    ELSE <<Head(xs)>> \o ListRemove(Tail(xs), x)

\* A dict is its items in insertion order: a list of [name, path] records.
DictKeys(d) == [i \in 1..Len(d) |-> d[i].name]

DictHas(d, k) == \E i \in 1..Len(d) : d[i].name = k

\* d[k] = v: overwrite in place when the key exists, append otherwise.
DictSet(d, k, v) ==
    IF DictHas(d, k)
    THEN [i \in 1..Len(d) |-> IF d[i].name = k THEN [name |-> k, path |-> v] ELSE d[i]]
    ELSE Append(d, [name |-> k, path |-> v])

\* del d[k]
DictDel(d, k) == SelectSeq(d, LAMBDA e : e.name # k)

----------------------------------------------------------------------------
(* run_command, app.py:12-29.                                              *)

\* What subprocess.run can do with "git clone".
CommandOutcomes == { "exit_zero", "exit_nonzero", "cannot_start" }

run_command(outcome) ==
    CASE outcome = "exit_zero"    -> [success |-> TRUE,  out |-> "stdout"]
      [] outcome = "exit_nonzero" -> [success |-> FALSE, out |-> "stderr"]
      [] OTHER                    -> [success |-> FALSE, out |-> "str(e)"]

----------------------------------------------------------------------------
(* api_request, app.py:31-47.                                              *)

\* Response bodies: fmt says how response.json() fares on the body.
\*   "empty", "text"  : not JSON, json() raises JSONDecodeError
\*   "object"         : a JSON object, with or without a "message" member
\*   "array"          : JSON that is not an object (a list of repositories)
NoBody == [fmt |-> "empty", hasMessage |-> FALSE, message |-> "",
           items |-> <<>>, text |-> ""]
TextBody == [fmt |-> "text", hasMessage |-> FALSE, message |-> "",
             items |-> <<>>, text |-> "<html>"]
ObjectWithMessage == [fmt |-> "object", hasMessage |-> TRUE, message |-> "Not Found",
                      items |-> <<>>, text |-> "{message: Not Found}"]
ObjectNoMessage == [fmt |-> "object", hasMessage |-> FALSE, message |-> "",
                    items |-> <<>>, text |-> "{error: x}"]
\* A JSON list of repository objects, each with its "name" member.
ArrayBody(names) == [fmt |-> "array", hasMessage |-> FALSE, message |-> "",
                     items |-> [i \in 1..Len(names) |-> [name |-> names[i]]],
                     text |-> "[...]"]

\* The empty dict of app.py:37.
EmptyDict == [fmt |-> "object", hasMessage |-> FALSE, message |-> "",
              items |-> <<>>, text |-> "{}"]

ErrorBodies == { NoBody, TextBody, ObjectWithMessage, ObjectNoMessage, ArrayBody(<<>>) }

\* Outcomes of requests.request: a transport failure, or a response.  A
\* repository list names each repository once (names are unique per owner).
TransportFailure == [arrived |-> FALSE, status |-> 0, body |-> NoBody]

Responses ==
    { TransportFailure }
    \cup { [arrived |-> TRUE, status |-> 204, body |-> NoBody] }
    \cup { [arrived |-> TRUE, status |-> 200, body |-> b] :
             b \in { NoBody, TextBody, ObjectWithMessage } }
    \cup { [arrived |-> TRUE, status |-> 200, body |-> ArrayBody(ns)] :
             ns \in DistinctSeqs(RepoNames, MaxScan) }
    \cup { [arrived |-> TRUE, status |-> s, body |-> b] :
             s \in {404, 500}, b \in ErrorBodies }

\* A DELETE is never answered with a list of repositories.
DeleteResponses == { r \in Responses : r.body.items = <<>> }

\* What the call hands to its caller: a (success, payload) pair, or an
\* exception that leaves the function.
Returned(ok, kind, json, str) ==
    [raised |-> FALSE, success |-> ok, kind |-> kind, json |-> json, str |-> str]
Raised(exc) ==
    [raised |-> TRUE, success |-> FALSE, kind |-> "exception", json |-> NoBody, str |-> exc]

IsJson(body) == body.fmt \in {"object", "array"}

\* app.py:39-45, the HTTPError handler.  error_details.get exists only on a
\* dict; the AttributeError of any other JSON value is raised inside the
\* handler and no sibling except clause catches it.
\* The handler as it would be with the response text as the default of
\* error_details.get.
http_error_result_text(body) ==
    IF ~IsJson(body) THEN Returned(FALSE, "str", NoBody, body.text)
    ELSE IF body.fmt # "object" THEN Raised("AttributeError")
    ELSE IF body.hasMessage THEN Returned(FALSE, "str", NoBody, body.message)
    ELSE Returned(FALSE, "str", NoBody, body.text)

\* app.py:39-45 as written.
http_error_result(body) ==
    IF ~IsJson(body) THEN Returned(FALSE, "str", NoBody, body.text)
    ELSE IF body.fmt # "object" THEN Raised("AttributeError")
    ELSE IF body.hasMessage THEN Returned(FALSE, "str", NoBody, body.message)
    ELSE Returned(FALSE, "str", NoBody, "Unknown Error")

api_request(resp) ==
    IF ~resp.arrived THEN Returned(FALSE, "str", NoBody, "str(e)")
    ELSE IF resp.status >= 400 THEN http_error_result(resp.body)
    ELSE IF resp.status = 204 THEN Returned(TRUE, "json", EmptyDict, "")
    ELSE IF IsJson(resp.body) THEN Returned(TRUE, "json", resp.body, "")
    ELSE Returned(FALSE, "str", NoBody, "str(e)")

----------------------------------------------------------------------------
(* The sidebar, app.py:89-114.                                             *)

Pages == { "Run Workflows", "View/Manage Repository", "Delete Repository",
           "View App Source Code" }

\* The readiness test as it would be with "or" in place of "and".
auth_ready_either(username, token) == username # <<>> \/ token # <<>>

\* app.py:103, truthiness of "github_username and github_token".
auth_ready(username, token) == username # <<>> /\ token # <<>>

\* app.py:82 and :161, str(Path(workspace) / repo_name).
workspace == "git_demo_"
local_path(name) == [dir |-> workspace, base |-> name]

----------------------------------------------------------------------------
(* Widgets.  A widget keeps its value from the previous run only when it   *)
(* is the same widget: same page, same label, same options.                *)

NoPick == <<>>

NoView(page, mode) ==
    [page |-> page, mode |-> mode, choices |-> <<>>, selected |-> <<>>,
     repo_name |-> <<>>, checked |-> FALSE]

HasSelectbox(v) == v.mode \in {"contents", "needs_clone", "list"}

\* st.selectbox without a key: default is the first option.
selectbox(prev, page, options, pick) ==
    IF prev.page = page /\ HasSelectbox(prev) /\ prev.choices = options
    THEN IF pick # NoPick THEN pick ELSE prev.selected
    ELSE options[1]

\* st.checkbox whose label carries the repository name (app.py:188).
checkbox(prev, page, label_name, toggle) ==
    IF prev.page = page /\ prev.mode = "list" /\ prev.selected = label_name
    THEN IF toggle THEN ~prev.checked ELSE prev.checked
    ELSE FALSE

----------------------------------------------------------------------------
(* Scan, app.py:130-137 and :172-179.                                      *)

\* The list comprehension [repo['name'] for repo in repos_data]: a list of
\* repository objects gives their names, the empty dict gives [], any other
\* dict is iterated by key and str['name'] raises TypeError.
ScanRaises(r) ==
    r.raised \/ (r.success /\ r.json.fmt = "object" /\ r.json # EmptyDict)

scan_names(r) == [i \in 1..Len(r.json.items) |-> r.json.items[i].name]

\* The store as it would be if a scan extended the list it found.
scan_store_extend(remote, names) == remote \o names

\* app.py:134 / :176, the assignment to st.session_state.remote_repos.
scan_store(remote, names) == names

scan_remote(remote, r) ==
    IF ~ScanRaises(r) /\ r.success THEN scan_store(remote, scan_names(r)) ELSE remote

----------------------------------------------------------------------------
(* View/Manage Repository, app.py:139-166.                                 *)

\* The local names as they would be if listed in sorted order.
local_repo_names_sorted(local) == SortedOfSet(Range(DictKeys(local)))

\* app.py:140, the keys in insertion order.
local_repo_names(local) == DictKeys(local)

\* app.py:141
remote_repo_names(names, remote) ==
    LET only == SelectSeq(remote, LAMBDA n : \A i \in 1..Len(names) : names[i] # n)
    IN  [i \in 1..Len(only) |-> only[i] \o Suffix]

\* app.py:142
all_choices(local, remote) ==
    local_repo_names(local) \o remote_repo_names(local_repo_names(local), remote)

\* app.py:150
repo_name_of(selected_choice) == StrReplace(selected_choice, Suffix, <<>>)

\* app.py:153-157, which branch the selection takes.
view_mode(local, name) == IF DictHas(local, name) THEN "contents" ELSE "needs_clone"

RenderView(local, remote, prev, pick) ==
    LET choices == all_choices(local, remote)
        page == "View/Manage Repository"
    IN  IF choices = <<>> THEN NoView(page, "empty")
        ELSE LET sel == selectbox(prev, page, choices, pick)
                 rn == repo_name_of(sel)
             IN  [page |-> page, mode |-> view_mode(local, rn), choices |-> choices,
                  selected |-> sel, repo_name |-> rn, checked |-> FALSE]

\* The registration as it would be without the test of success.
clone_register_always(local, name, success) ==
    DictSet(local, name, local_path(name))

\* app.py:163-164
clone_register(local, name, success) ==
    IF success THEN DictSet(local, name, local_path(name)) ELSE local

\* The page as it would be left without the st.rerun() call.
clone_view_stale(local, remote, v, success) == v

\* app.py:166, st.rerun() after a successful clone runs the script again.
clone_view(local, remote, v, success) ==
    IF success THEN RenderView(local, remote, v, NoPick) ELSE v

----------------------------------------------------------------------------
(* Delete Repository, app.py:181-210.                                      *)

\* app.py:181
all_repos_to_delete(local, remote) ==
    SortedOfSet(Range(DictKeys(local)) \cup Range(remote))

RenderDelete(local, remote, prev, pick, toggle) ==
    LET choices == all_repos_to_delete(local, remote)
        page == "Delete Repository"
    IN  IF choices = <<>> THEN NoView(page, "empty")
        ELSE LET sel == selectbox(prev, page, choices, pick)
             IN  [page |-> page, mode |-> "list", choices |-> choices,
                  selected |-> sel, repo_name |-> sel,
                  checked |-> checkbox(prev, page, sel, toggle)]

\* app.py:198-204: the del statement follows shutil.rmtree inside the try.
evict_local(local, name, rmtree_ok) ==
    IF DictHas(local, name) /\ rmtree_ok THEN DictDel(local, name) ELSE local

\* app.py:205-206
evict_remote(remote, name) ==
    IF name \in Range(remote) THEN ListRemove(remote, name) ELSE remote

\* A run of the script with no button pressed.
Render(page, local, remote, prev) ==
    CASE page = "View/Manage Repository" -> RenderView(local, remote, prev, NoPick)
      [] page = "Delete Repository" -> RenderDelete(local, remote, prev, NoPick, FALSE)
      [] OTHER -> NoView(page, "plain")

----------------------------------------------------------------------------
(* The record of what the last run of the script did.                      *)

NoResponse == [arrived |-> FALSE, status |-> -1, body |-> NoBody]
NoResult == Returned(FALSE, "none", NoBody, "")

\* op: which handler ran; user, token: the credentials put into the call;
\* resp, result: the HTTP outcome and what api_request made of it;
\* cmd: the outcome of git clone; name: the repository acted on;
\* rmtree: "not_called", "removed" or "failed"; warning: st.warning shown
\* by the handler; aborted: an exception ended the run; dropped: the run
\* began with a name in remote_repos that its scan response does not list.
Event(op, user, token, resp, result, cmd, name, rmtree, warning, aborted) ==
    [op |-> op, user |-> user, token |-> token, resp |-> resp, result |-> result,
     cmd |-> cmd, name |-> name, rmtree |-> rmtree, warning |-> warning,
     aborted |-> aborted, dropped |-> FALSE]

UiEvent(op) ==
    Event(op, <<>>, <<>>, NoResponse, NoResult, "none", <<>>, "not_called", FALSE, FALSE)

ApiEvent(op, resp, name, rmtree, warning, aborted) ==
    Event(op, github_username, github_token, resp, api_request(resp), "none",
          name, rmtree, warning, aborted)

ResponseNames(resp) == { resp.body.items[i].name : i \in 1..Len(resp.body.items) }

ScanEvent(resp) ==
    [ApiEvent("scan", resp, <<>>, "not_called", FALSE, ScanRaises(api_request(resp)))
        EXCEPT !.dropped = Range(remote_repos) \ ResponseNames(resp) # {}]

----------------------------------------------------------------------------
(* Initial state, app.py:81-84 and the widget defaults.                    *)

Init ==
    /\ local_repos = <<>>
    /\ remote_repos = <<>>
    /\ github_username = <<>>
    /\ github_token = <<>>
    /\ action = "Run Workflows"
    /\ view = NoView("Run Workflows", "plain")
    /\ last = UiEvent("start")

----------------------------------------------------------------------------
(* Runs of the script.                                                     *)

\* app.py:93-97, the user picks another entry of the sidebar selectbox.
SelectAction(a) ==
    /\ a # action
    /\ action' = a
    /\ view' = Render(a, local_repos, remote_repos, view)
    /\ last' = UiEvent("select_action")
    /\ UNCHANGED <<local_repos, remote_repos, github_username, github_token>>

\* app.py:99-101, the user edits the credential inputs.
SetCredentials(u, t) ==
    /\ <<u, t>> # <<github_username, github_token>>
    /\ github_username' = u
    /\ github_token' = t
    /\ view' = Render(action, local_repos, remote_repos, view)
    /\ last' = UiEvent("set_credentials")
    /\ UNCHANGED <<local_repos, remote_repos, action>>

\* app.py:120-124 and the note at :223-226: a workflow button registers the
\* repository it created.
RunWorkflow(name) ==
    /\ action = "Run Workflows"
    /\ local_repos' = DictSet(local_repos, name, local_path(name))
    /\ view' = NoView(action, "plain")
    /\ last' = [UiEvent("workflow") EXCEPT !.name = name]
    /\ UNCHANGED <<remote_repos, github_username, github_token, action>>

\* app.py:130-157 with the scan button pressed.
ScanView(resp) ==
    /\ action = "View/Manage Repository"
    /\ auth_ready(github_username, github_token)
    /\ LET r == api_request(resp)
       IN  /\ remote_repos' = scan_remote(remote_repos, r)
           /\ view' = IF ScanRaises(r) THEN NoView(action, "exception")
                      ELSE RenderView(local_repos, remote_repos', view, NoPick)
           /\ last' = ScanEvent(resp)
    /\ UNCHANGED <<local_repos, github_username, github_token, action>>

\* app.py:147, the user picks another entry of the repository selectbox.
SelectChoice(c) ==
    /\ action = "View/Manage Repository"
    /\ HasSelectbox(view)
    /\ c \in Range(view.choices)
    /\ c # view.selected
    /\ view' = RenderView(local_repos, remote_repos, view, c)
    /\ last' = UiEvent("select_choice")
    /\ UNCHANGED <<local_repos, remote_repos, github_username, github_token, action>>

\* app.py:139-166 with the clone button pressed.
Clone(outcome) ==
    /\ action = "View/Manage Repository"
    /\ view.mode = "needs_clone"
    /\ auth_ready(github_username, github_token)
    /\ LET v == RenderView(local_repos, remote_repos, view, NoPick)
           res == run_command(outcome)
       IN  /\ v.mode = "needs_clone"
           /\ local_repos' = clone_register(local_repos, v.repo_name, res.success)
           /\ view' = clone_view(local_repos', remote_repos, v, res.success)
           /\ last' = Event("clone", github_username, github_token, NoResponse,
                            NoResult, outcome, v.repo_name, "not_called", FALSE, FALSE)
    /\ UNCHANGED <<remote_repos, github_username, github_token, action>>

\* app.py:172-188 with the scan button pressed.
ScanDelete(resp) ==
    /\ action = "Delete Repository"
    /\ auth_ready(github_username, github_token)
    /\ LET r == api_request(resp)
       IN  /\ remote_repos' = scan_remote(remote_repos, r)
           /\ view' = IF ScanRaises(r) THEN NoView(action, "exception")
                      ELSE RenderDelete(local_repos, remote_repos', view, NoPick, FALSE)
           /\ last' = ScanEvent(resp)
    /\ UNCHANGED <<local_repos, github_username, github_token, action>>

\* app.py:186, the user picks another repository to delete.
SelectDelete(c) ==
    /\ action = "Delete Repository"
    /\ view.mode = "list"
    /\ c \in Range(view.choices)
    /\ c # view.selected
    /\ view' = RenderDelete(local_repos, remote_repos, view, c, FALSE)
    /\ last' = UiEvent("select_delete")
    /\ UNCHANGED <<local_repos, remote_repos, github_username, github_token, action>>

\* app.py:188, the user ticks or clears the confirmation checkbox.
ToggleConfirm ==
    /\ action = "Delete Repository"
    /\ view.mode = "list"
    /\ view' = RenderDelete(local_repos, remote_repos, view, NoPick, TRUE)
    /\ last' = UiEvent("toggle_confirm")
    /\ UNCHANGED <<local_repos, remote_repos, github_username, github_token, action>>

\* app.py:181-210 with the delete button pressed.  The widgets are rendered
\* before the deletion, so they keep showing the list as it was.
DeleteClick(resp, rmtree_ok) ==
    /\ action = "Delete Repository"
    /\ view.mode = "list"
    /\ view.checked
    /\ auth_ready(github_username, github_token)
    /\ LET v == RenderDelete(local_repos, remote_repos, view, NoPick, FALSE)
           r == api_request(resp)
           name == v.repo_name
           called == DictHas(local_repos, name)
       IN  /\ view' = v
           /\ IF v.mode = "list" /\ v.checked
              THEN IF ~r.raised /\ r.success
                   THEN /\ local_repos' = evict_local(local_repos, name, rmtree_ok)
                        /\ remote_repos' = evict_remote(remote_repos, name)
                        /\ called \/ rmtree_ok
                        /\ last' = ApiEvent("delete", resp, name,
                                      IF ~called THEN "not_called"
                                      ELSE IF rmtree_ok THEN "removed" ELSE "failed",
                                      called /\ ~rmtree_ok, FALSE)
                   ELSE /\ rmtree_ok
                        /\ last' = ApiEvent("delete", resp, name, "not_called",
                                            FALSE, r.raised)
                        /\ UNCHANGED <<local_repos, remote_repos>>
              ELSE /\ rmtree_ok
                   /\ resp = TransportFailure
                   /\ last' = UiEvent("delete_not_rendered")
                   /\ UNCHANGED <<local_repos, remote_repos>>
    /\ UNCHANGED <<github_username, github_token, action>>

Next ==
    \/ \E a \in Pages : SelectAction(a)
    \/ \E u \in Usernames, t \in Tokens : SetCredentials(u, t)
    \/ \E n \in RepoNames : RunWorkflow(n)
    \/ \E resp \in Responses : ScanView(resp)
    \/ \E c \in RepoNames \cup { n \o Suffix : n \in RepoNames } : SelectChoice(c)
    \/ \E o \in CommandOutcomes : Clone(o)
    \/ \E resp \in Responses : ScanDelete(resp)
    \/ \E c \in RepoNames : SelectDelete(c)
    \/ ToggleConfirm
    \/ \E resp \in DeleteResponses, ok \in BOOLEAN : DeleteClick(resp, ok)

Spec == Init /\ [][Next]_vars

\* Every state the model reaches has this shape.
TypeOK ==
    /\ Range(DictKeys(local_repos)) \subseteq RepoNames
    /\ Cardinality(Range(DictKeys(local_repos))) = Len(local_repos)
    /\ Range(remote_repos) \subseteq RepoNames
    /\ Cardinality(Range(remote_repos)) = Len(remote_repos)
    /\ github_username \in Usernames
    /\ github_token \in Tokens
    /\ action \in Pages
    /\ view.page = action

----------------------------------------------------------------------------
(* Properties.                                                             *)

IsApiCall == last.op \in {"scan", "delete"}

DeleteSucceeded == last.op = "delete" /\ ~last.result.raised /\ last.result.success

OnViewPage == view.page = "View/Manage Repository" /\ view.mode # "exception"

\* The remote names that are not local keys, in remote order.
RemoteOnly == SelectSeq(remote_repos, LAMBDA n : ~DictHas(local_repos, n))

\* The registry name that produced entry i of the choice list.
EntryName(i) ==
    IF i <= Len(local_repos) THEN local_repos[i].name
    ELSE RemoteOnly[i - Len(local_repos)]

\* The entries of the choice list that carry the "(remote)" tag.
TaggedNames ==
    { EntryName(i) : i \in (Len(local_repos) + 1)..Len(view.choices) }

\* C1: after a run of the Delete action whose remote DELETE succeeded, the
\* deleted name is in neither local_repos nor remote_repos, also when
\* shutil.rmtree raised; in that case a warning was shown and the run was
\* not aborted.
C1_DeleteEvictsBoth ==
    DeleteSucceeded =>
        /\ ~DictHas(local_repos, last.name)
        /\ last.name \notin Range(remote_repos)
        /\ last.rmtree = "failed" => (last.warning /\ ~last.aborted)

\* C2: a run whose external call failed leaves the registry as it was: a
\* failed git clone adds nothing to local_repos, a failed DELETE changes
\* neither collection, a failed scan leaves remote_repos alone.
C2_FailedCallKeepsRegistry ==
    [][ /\ (last'.op = "clone" /\ ~run_command(last'.cmd).success)
            => local_repos' = local_repos
        /\ (last'.op = "delete" /\ ~last'.result.success)
            => (local_repos' = local_repos /\ remote_repos' = remote_repos)
        /\ (last'.op = "scan" /\ ~last'.result.success)
            => remote_repos' = remote_repos ]_vars

C2_Witness ==
    /\ last.op = "delete"
    /\ last.resp.status = 404
    /\ ~last.result.raised
    /\ ~last.result.success
    /\ DictHas(local_repos, last.name)
    /\ last.name \in Range(remote_repos)

\* C3: after every successful scan, from either page, remote_repos is
\* exactly the list of names in that scan's response; nothing of an earlier
\* scan is retained.
C3_ScanReplaces ==
    [][ (last'.op = "scan" /\ last'.result.success /\ ~last'.aborted)
            => remote_repos' = [i \in 1..Len(last'.resp.body.items) |->
                                   last'.resp.body.items[i].name] ]_vars

C3_Witness ==
    /\ last.op = "scan"
    /\ last.result.success
    /\ last.dropped
    /\ remote_repos # <<>>

C5_ChoiceList ==
    OnViewPage =>
        /\ Len(view.choices) = Len(local_repos) + Len(RemoteOnly)
        /\ \A i \in 1..Len(local_repos) : view.choices[i] = local_repos[i].name
        /\ \A j \in 1..Len(RemoteOnly) :
              view.choices[Len(local_repos) + j] = RemoteOnly[j] \o Suffix
        /\ \A n \in Range(DictKeys(local_repos)) \cup Range(remote_repos) :
              Cardinality({ i \in 1..Len(view.choices) : EntryName(i) = n }) = 1

C5_Witness ==
    /\ OnViewPage
    /\ Len(local_repos) = 2
    /\ StrLess(local_repos[2].name, local_repos[1].name)
    /\ Len(RemoteOnly) = 1
    /\ Len(remote_repos) = 2
    /\ Len(view.choices) = 3

\* C6: api_request hands a (success, payload) pair to its caller for every
\* outcome of the HTTP call; no exception leaves it.
C6_NeverRaises == IsApiCall => ~last.result.raised

\* C7 as stated: on a 4xx/5xx response the pair returned is a failure whose
\* payload is the body's message member when it has one and the raw
\* response text otherwise.
C7_MessageElseText ==
    (IsApiCall /\ last.resp.arrived /\ last.resp.status >= 400 /\ ~last.result.raised) =>
        /\ ~last.result.success
        /\ last.result.str = IF last.resp.body.hasMessage
                             THEN last.resp.body.message
                             ELSE last.resp.body.text

\* C7 amended: on a 4xx/5xx response, a JSON object body gives failure with
\* its message member, or with the literal "Unknown Error" when it has
\* none; a body that is not JSON gives failure with the raw response text;
\* a JSON body that is not an object gives no pair at all, the
\* AttributeError leaves the function.
C7_MessageElseUnknownError ==
    (IsApiCall /\ last.resp.arrived /\ last.resp.status >= 400) =>
        LET body == last.resp.body
        IN  CASE body.fmt = "object" /\ body.hasMessage ->
                   last.result = Returned(FALSE, "str", NoBody, body.message)
              [] body.fmt = "object" /\ ~body.hasMessage ->
                   last.result = Returned(FALSE, "str", NoBody, "Unknown Error")
              [] body.fmt \in {"empty", "text"} ->
                   last.result = Returned(FALSE, "str", NoBody, body.text)
              [] OTHER -> last.result.raised

C7_Witness ==
    /\ IsApiCall
    /\ last.resp.status = 404
    /\ last.resp.body = ObjectNoMessage
    /\ last.result.str = "Unknown Error"

\* C8: every scan GET, git clone and remote DELETE is issued with a
\* non-empty username and a non-empty token.
C8_CallsAreAuthenticated ==
    last.op \in {"scan", "clone", "delete"} =>
        (last.user # <<>> /\ last.token # <<>>)

C8_Witness ==
    /\ last.op = "clone"
    /\ last.user = <<"u">>
    /\ last.token = <<"t">>

\* C9: the eviction of the delete action is idempotent: applied again for
\* the name a successful delete has just evicted it changes neither
\* collection, whatever shutil.rmtree does; and applied for a name that is
\* in neither collection it changes nothing.
C9_EvictionIdempotent ==
    /\ DeleteSucceeded =>
         \A again_ok \in BOOLEAN :
            /\ evict_local(local_repos, last.name, again_ok) = local_repos
            /\ evict_remote(remote_repos, last.name) = remote_repos
    /\ \A n \in RepoNames, ok \in BOOLEAN :
         (~DictHas(local_repos, n) /\ n \notin Range(remote_repos)) =>
            /\ evict_local(local_repos, n, ok) = local_repos
            /\ evict_remote(remote_repos, n) = remote_repos

\* C10: for every entry of the choice list, stripping the display suffix
\* from its label gives back the registry name that produced the entry.
C10_LabelRoundTrip ==
    (OnViewPage /\ Len(view.choices) = Len(local_repos) + Len(RemoteOnly)) =>
        \A i \in 1..Len(view.choices) : repo_name_of(view.choices[i]) = EntryName(i)

====
